---- MODULE Spec2Model ----
(***************************************************************************)
(* Nexus Protocol Bridge (src/nexus_bridge.py): the token / escrow state   *)
(* machine of request_access, verify, challenge and resolve_challenge.     *)
(*                                                                         *)
(* Every handler talks to the store through independent round trips        *)
(* (supabase.table(..).select/update/insert/delete(..).execute()).  Each   *)
(* round trip is one atomic step of the model; the values a handler keeps  *)
(* in Python locals between two round trips are fields of its request      *)
(* record.  Requests run concurrently (a multi-worker HTTP service), so    *)
(* the steps of different requests interleave freely.                      *)
(***************************************************************************)
EXTENDS Integers, Sequences, FiniteSets, Bags, TLC

\* ---------------------------------------------------------------- constants

COST == 10
CHALLENGE_STAKE == 1
SELLER_PENALTY_VALID == 5

\* ------------------------------------------------------------------- bounds

\* Requests the clients send in one behaviour.
MaxReqs == 4
\* Credits of the buyer when the behaviour starts.
InitBalance == 20
\* Credits of the buyer at the start of the sequential scenarios.
HappyBalance == 100

\* ------------------------------------------------------------------- inputs

\* The absent header / JSON null / missing dictionary key.
None == "None"

\* Rows of the users table (user_id); api keys are looked up by their hash.
Users == {"b1", "s1", "s2"}
sha256(api_key) == <<"sha256", api_key>>
api_key_hash == [u \in Users |-> sha256("key_" \o u)]

\* What the clients present.
BuyerKeys == {"key_b1"}
SellerKeys == {"key_s1", "key_s2"}
SellerIds == {"s1"}
IdemKeys == {"k1", "k2"}
Outcomes == {"valid", "invalid"}
AdminKeys == {"adm"}
\* os.environ["ADMIN_KEY"] of the server process.
ADMIN_KEY == "adm"
\* A token string no request_access ever returned.
BogusToken == 0

\* ------------------------------------------------------------------- state

VARIABLES
    users,          \* users table: user_id -> balance, escrow_balance, total_earned, reputation
    tokens,         \* tokens table: set of rows [token, user_id, seller_id]
    transactions,   \* transactions table, in insertion order
    issued,         \* number of uuid4 tokens generated so far (token ids 1..issued)
    inflight,       \* bag of requests between two store round trips
    responses,      \* bag of the responses sent so far (history)
    started,        \* number of requests received so far
    expired         \* tokens whose expiry time (creation time + TTL) has passed

vars == <<users, tokens, transactions, issued, inflight, responses, started, expired>>

store == <<users, tokens, transactions>>

\* ------------------------------------------------------------ request shape

\* The locals of a handler between round trips.  One shape for every handler;
\* a field a handler does not use keeps its default.
NoReq ==
    [op |-> "none", pc |-> "none", caller |-> None, token |-> BogusToken,
     seller_id |-> None, buyer_id |-> None, idem |-> None, outcome |-> None,
     balance |-> 0, escrow |-> 0, earned |-> 0, rep |-> 0, stake |-> 0,
     after403 |-> FALSE]

\* An HTTP response, with the request it answers.  key: the api key header
\* of a request answered in its first round trip.  live: the token row existed
\* when the handler selected it.  after403: a 403 for this token had already
\* been sent when the request arrived.  configured: the ADMIN_KEY of the server
\* process when an admin endpoint handled the request.  outcome: req.outcome.
NoResp ==
    [op |-> "none", key |-> None, caller |-> None, token |-> BogusToken, idem |-> None,
     status |-> 200, valid |-> None, error |-> None, buyer_id |-> None,
     detail |-> None, live |-> FALSE, after403 |-> FALSE, configured |-> None,
     outcome |-> None]

One(x) == SetToBag({x})

Reply(resp) == responses' = responses (+) One(resp)

\* Request r finishes, answering resp.
Finish(r, resp) ==
    /\ inflight' = inflight (-) One(r)
    /\ Reply(resp)
    /\ UNCHANGED expired

\* Request r goes on to its next round trip as r2.
Continue(r, r2) ==
    /\ inflight' = (inflight (-) One(r)) (+) One(r2)
    /\ UNCHANGED <<responses, expired>>

\* A new request arrives and is answered within its first round trip.
Answer(resp) ==
    /\ started' = started + 1
    /\ Reply(resp)
    /\ UNCHANGED <<inflight, expired>>

\* A new request arrives and goes on after its first round trip.
Admit(r) ==
    /\ started' = started + 1
    /\ inflight' = inflight (+) One(r)
    /\ UNCHANGED <<responses, expired>>

Running(op, pc) == {r \in BagToSet(inflight) : r.op = op /\ r.pc = pc}

\* ---------------------------------------------------------------- helpers

\* _require with its check left out: a missing header passes.
_require_always(value) == TRUE

\* _require: a missing header is a 400.
_require(value) == value # None

\* _auth_user_id: the user whose api_key_hash is the hash of the key, or None.
_auth_user_id(api_key) ==
    LET hashed == sha256(api_key)
        data == {u \in Users : api_key_hash[u] = hashed}
    IN  IF data = {} THEN None ELSE CHOOSE u \in data : TRUE

\* _require_admin without the comparison: any key that is present passes.
_require_admin_open(x_admin_key, expected) ==
    IF ~_require(x_admin_key) THEN 400 ELSE 200

\* _require_admin: the status it raises, or 200.
_require_admin(x_admin_key, expected) ==
    IF ~_require(x_admin_key) THEN 400
    ELSE IF expected = None THEN 500
    ELSE IF x_admin_key # expected THEN 403
    ELSE 200

\* Rows of the tokens table with this token.
TokenRows(token) == {row \in tokens : row.token = token}

\* Indexes of the transactions rows with this token, in table order.
TxRows(token) == {i \in 1..Len(transactions) : transactions[i].token = token}

Min(S) == CHOOSE x \in S : \A y \in S : x <= y

Max0(n) == IF n > 0 THEN n ELSE 0

\* ------------------------------------------------------------------- Init

Init ==
    /\ users = [u \in Users |->
                 [balance |-> IF u = "b1" THEN InitBalance ELSE 0,
                  escrow_balance |-> 0, total_earned |-> 0, reputation |-> 0]]
    /\ tokens = {}
    /\ transactions = <<>>
    /\ issued = 0
    /\ inflight = EmptyBag
    /\ responses = EmptyBag
    /\ started = 0
    /\ expired = {}

\* --------------------------------------------------------- request_access

\* The 402 check with a balance of 0 as its threshold.
InsufficientBalance_zero(balance) == balance <= 0

\* The 402 check: balance < COST.
InsufficientBalance(balance) == balance < COST

\* POST /request_access with an x-api-key among keys, a seller_id among
\* sellers in its body and an x-idempotency-key among idems: authenticate,
\* read the buyer's balance and escrow.
request_access_for(keys, sellers, idems) ==
    /\ started < MaxReqs
    /\ \E x_api_key \in keys, seller_id \in sellers, idem \in idems :
        LET resp == [NoResp EXCEPT !.op = "request_access", !.idem = idem,
                                   !.key = x_api_key]
            buyer_id == _auth_user_id(x_api_key)
        IN  IF ~_require(x_api_key)
              THEN Answer([resp EXCEPT !.status = 400])
            ELSE IF buyer_id = None
              THEN Answer([resp EXCEPT !.status = 401])
            ELSE IF InsufficientBalance(users[buyer_id].balance)
              THEN Answer([resp EXCEPT !.status = 402, !.caller = buyer_id])
            ELSE Admit([NoReq EXCEPT !.op = "request_access", !.pc = "lock",
                          !.caller = buyer_id, !.buyer_id = buyer_id,
                          !.seller_id = seller_id, !.idem = idem,
                          !.balance = users[buyer_id].balance,
                          !.escrow = users[buyer_id].escrow_balance])
    /\ UNCHANGED <<users, tokens, transactions, issued>>

\* POST /request_access naming one of the sellers of the users table.
request_access_from(keys) == request_access_for(keys, SellerIds, IdemKeys)

\* POST /request_access by the buyers that hold a key.
request_access == request_access_from(BuyerKeys)

\* The debit alone: the escrow is left as it was read.
LockedFunds_debit_only(balance, escrow) ==
    [balance |-> balance - COST, escrow_balance |-> escrow]

\* The balance and escrow written by "Lock funds".
LockedFunds(balance, escrow) ==
    [balance |-> balance - COST, escrow_balance |-> escrow + COST]

\* Lock funds: write balance - COST and escrow + COST computed from the values read.
request_access_lock ==
    \E r \in Running("request_access", "lock") :
        LET w == LockedFunds(r.balance, r.escrow)
        IN  /\ users' = [users EXCEPT ![r.buyer_id].balance = w.balance,
                                      ![r.buyer_id].escrow_balance = w.escrow_balance]
            /\ Continue(r, [r EXCEPT !.pc = "insert"])
            /\ UNCHANGED <<tokens, transactions, issued, started>>

\* A generator that hands out the token string it generated last.
uuid4_repeating == IF issued = 0 THEN 1 ELSE issued

\* str(uuid.uuid4()): a token string never generated before.
uuid4 == issued + 1

\* token = uuid4(); insert the token row; return it.
request_access_insert ==
    \E r \in Running("request_access", "insert") :
        LET token == uuid4
        IN  /\ issued' = token
            /\ tokens' = tokens \cup
                 {[token |-> token, user_id |-> r.buyer_id, seller_id |-> r.seller_id]}
            /\ Finish(r, [NoResp EXCEPT !.op = "request_access", !.caller = r.buyer_id,
                            !.idem = r.idem, !.token = token])
            /\ UNCHANGED <<users, transactions, started>>

\* ------------------------------------------------------------ verify_token

\* The token strings a client can present: the ones handed out, or garbage.
Presentable == (1..issued) \cup {BogusToken}

\* A 403 for this token has been sent.
Had403(token) ==
    \E x \in BagToSet(responses) : x.op = "verify" /\ x.token = token /\ x.status = 403

\* The 403 check left out: any authenticated seller may settle the token.
SellerAuthorized_any(seller_id, intended_seller_id) == TRUE

\* Whether the caller of verify may settle the row: the 403 check.
SellerAuthorized(seller_id, intended_seller_id) == seller_id = intended_seller_id

\* GET /verify/{token}: authenticate the seller, select the token row, compare
\* the seller with the one the token is bound to.
verify_token_from(keys) ==
    /\ started < MaxReqs
    /\ \E x_seller_api_key \in keys, token \in Presentable :
        LET seller_id == _auth_user_id(x_seller_api_key)
            resp == [NoResp EXCEPT !.op = "verify", !.token = token,
                                   !.key = x_seller_api_key,
                                   !.after403 = Had403(token)]
            data == TokenRows(token)
            row == CHOOSE x \in data : TRUE
        IN  IF ~_require(x_seller_api_key)
              THEN Answer([resp EXCEPT !.status = 400])
            ELSE IF seller_id = None
              THEN Answer([resp EXCEPT !.status = 401])
            ELSE IF data = {}
              THEN Answer([resp EXCEPT !.caller = seller_id, !.valid = "false"])
            ELSE IF ~SellerAuthorized(seller_id, row.seller_id)
              THEN Answer([resp EXCEPT !.caller = seller_id, !.status = 403,
                                       !.detail = "Seller not authorized for this token",
                                       !.live = TRUE])
            ELSE Admit([NoReq EXCEPT !.op = "verify", !.pc = "burn",
                          !.caller = seller_id, !.token = token,
                          !.buyer_id = row.user_id, !.seller_id = row.seller_id,
                          !.after403 = Had403(token)])
    /\ UNCHANGED <<users, tokens, transactions, issued>>

\* GET /verify/{token} by the sellers that hold a key.
verify_token == verify_token_from(SellerKeys)

\* The response of the later round trips with an error code filled in.
VerifyResp_coded(r) ==
    [NoResp EXCEPT !.op = "verify", !.caller = r.caller, !.token = r.token,
                   !.live = TRUE, !.after403 = r.after403, !.error = "ALREADY_USED"]

\* What verify answers from its later round trips, before valid is filled in.
VerifyResp(r) ==
    [NoResp EXCEPT !.op = "verify", !.caller = r.caller, !.token = r.token,
                   !.live = TRUE, !.after403 = r.after403]

\* The result of the delete ignored: every caller that selected the row goes on.
BurnedByMe_always(deleted) == TRUE

\* The test of the delete inverted: the caller that removed the row stops.
BurnedByMe_inverted(deleted) == deleted = {}

\* Whether the handler goes on after the delete: delete_resp.data holds the
\* rows this delete removed; an empty list means another request burned the token.
BurnedByMe(deleted) == deleted # {}

\* The burn left for later: the handler goes on to pay with the row in place.
verify_burn_later ==
    \E r \in Running("verify", "burn") :
        /\ Continue(r, [r EXCEPT !.pc = "read_escrow"])
        /\ UNCHANGED <<users, tokens, transactions, issued, started>>

\* Burn token first: delete the row; stop with valid:false when nothing was deleted.
verify_burn ==
    \E r \in Running("verify", "burn") :
        LET deleted == TokenRows(r.token)
        IN  /\ tokens' = tokens \ deleted
            /\ IF BurnedByMe(deleted)
                 THEN Continue(r, [r EXCEPT !.pc = "read_escrow"])
                 ELSE Finish(r, [VerifyResp(r) EXCEPT !.valid = "false"])
            /\ UNCHANGED <<users, transactions, issued, started>>

\* Deduct buyer escrow, first round trip: read escrow_balance.
verify_read_escrow ==
    \E r \in Running("verify", "read_escrow") :
        /\ Continue(r, [r EXCEPT !.pc = "write_escrow",
                          !.escrow = IF r.buyer_id \in Users
                                       THEN users[r.buyer_id].escrow_balance ELSE 0])
        /\ UNCHANGED <<users, tokens, transactions, issued, started>>

\* The decrement without its floor at 0.
DeductedEscrow_unclamped(buyer_escrow) == buyer_escrow - COST

\* The escrow written back: max(0, buyer_escrow - COST).
DeductedEscrow(buyer_escrow) == Max0(buyer_escrow - COST)

\* Deduct buyer escrow, second round trip: write the value computed from the read.
verify_write_escrow ==
    \E r \in Running("verify", "write_escrow") :
        /\ users' = IF r.buyer_id \in Users
                      THEN [users EXCEPT ![r.buyer_id].escrow_balance = DeductedEscrow(r.escrow)]
                      ELSE users
        /\ Continue(r, [r EXCEPT !.pc = "read_seller"])
        /\ UNCHANGED <<tokens, transactions, issued, started>>

\* Pay seller, first round trip: read total_earned and reputation (500 if no row).
verify_read_seller ==
    \E r \in Running("verify", "read_seller") :
        /\ IF r.seller_id \notin Users
             THEN Finish(r, [VerifyResp(r) EXCEPT !.status = 500,
                               !.detail = "Seller not found in users table"])
             ELSE Continue(r, [r EXCEPT !.pc = "write_seller",
                                 !.earned = users[r.seller_id].total_earned,
                                 !.rep = users[r.seller_id].reputation])
        /\ UNCHANGED <<users, tokens, transactions, issued, started>>

\* Pay seller, second round trip: write total_earned + COST and reputation + 1.
verify_write_seller ==
    \E r \in Running("verify", "write_seller") :
        /\ users' = [users EXCEPT ![r.seller_id].total_earned = r.earned + COST,
                                  ![r.seller_id].reputation = r.rep + 1]
        /\ Continue(r, [r EXCEPT !.pc = "record"])
        /\ UNCHANGED <<tokens, transactions, issued, started>>

\* The row verify appends to the transactions table.
TxRow(buyer_id, seller_id, token) ==
    [buyer_id |-> buyer_id, seller_id |-> seller_id, amount |-> COST, token |-> token,
     challenged |-> FALSE, challenge_status |-> None, challenge_stake |-> 0,
     challenge_reason |-> None, challenge_resolved_at |-> None]

\* Record transaction, then answer valid:true with the buyer's id.
verify_record ==
    \E r \in Running("verify", "record") :
        /\ transactions' = Append(transactions, TxRow(r.buyer_id, r.seller_id, r.token))
        /\ Finish(r, [VerifyResp(r) EXCEPT !.valid = "true", !.buyer_id = r.buyer_id])
        /\ UNCHANGED <<users, tokens, issued, started>>

\* ---------------------------------------------------------- open_challenge

\* transactions.update(fields).eq("token", token): every row with this token
\* gets the given fields, the other fields and rows stay.
UpdateTx(token, fields) ==
    [i \in 1..Len(transactions) |->
       IF transactions[i].token = token
         THEN [f \in DOMAIN transactions[i] |->
                 IF f \in DOMAIN fields THEN fields[f] ELSE transactions[i][f]]
         ELSE transactions[i]]

ChallengeResp(caller, token) ==
    [NoResp EXCEPT !.op = "challenge", !.caller = caller, !.token = token]

\* POST /challenge: authenticate the buyer, select the transaction, check that
\* it is the caller's and not challenged yet.
open_challenge_from(keys) ==
    /\ started < MaxReqs
    /\ \E x_api_key \in keys, token \in Presentable :
        LET buyer_id == _auth_user_id(x_api_key)
            resp == [ChallengeResp(buyer_id, token) EXCEPT !.key = x_api_key]
            data == TxRows(token)
            tx == transactions[Min(data)]
        IN  IF ~_require(x_api_key)
              THEN Answer([resp EXCEPT !.status = 400])
            ELSE IF buyer_id = None
              THEN Answer([resp EXCEPT !.status = 401])
            ELSE IF data = {}
              THEN Answer([resp EXCEPT !.status = 404, !.detail = "Transaction not found"])
            ELSE IF tx.buyer_id # buyer_id
              THEN Answer([resp EXCEPT !.status = 403, !.detail = "Not your transaction"])
            ELSE IF tx.challenged
              THEN Answer([resp EXCEPT !.status = 400, !.detail = "Already challenged"])
            ELSE Admit([NoReq EXCEPT !.op = "challenge", !.pc = "read_balance",
                          !.caller = buyer_id, !.buyer_id = buyer_id, !.token = token])
    /\ UNCHANGED <<users, tokens, transactions, issued>>

\* POST /challenge by the buyers that hold a key.
open_challenge == open_challenge_from(BuyerKeys)

\* The balance read without the 402 check.
challenge_read_balance_unchecked ==
    \E r \in Running("challenge", "read_balance") :
        /\ Continue(r, [r EXCEPT !.pc = "write_balance",
                                   !.balance = users[r.buyer_id].balance])
        /\ UNCHANGED <<users, tokens, transactions, issued, started>>

\* Deduct stake, first round trip: read the balance; 402 when below the stake.
challenge_read_balance ==
    \E r \in Running("challenge", "read_balance") :
        LET balance == users[r.buyer_id].balance
        IN  /\ IF balance < CHALLENGE_STAKE
                 THEN Finish(r, [ChallengeResp(r.caller, r.token) EXCEPT !.status = 402,
                                   !.detail = "Insufficient balance to stake a challenge"])
                 ELSE Continue(r, [r EXCEPT !.pc = "write_balance", !.balance = balance])
            /\ UNCHANGED <<users, tokens, transactions, issued, started>>

\* Deduct stake, second round trip: write balance - CHALLENGE_STAKE.
challenge_write_balance ==
    \E r \in Running("challenge", "write_balance") :
        /\ users' = [users EXCEPT ![r.buyer_id].balance = r.balance - CHALLENGE_STAKE]
        /\ Continue(r, [r EXCEPT !.pc = "mark"])
        /\ UNCHANGED <<tokens, transactions, issued, started>>

\* The update with the stake written to the row's amount column.
MarkPending_amount ==
    [challenged |-> TRUE, challenge_status |-> "pending",
     amount |-> CHALLENGE_STAKE, challenge_reason |-> "reason"]

MarkPending ==
    [challenged |-> TRUE, challenge_status |-> "pending",
     challenge_stake |-> CHALLENGE_STAKE, challenge_reason |-> "reason"]

\* Mark challenge pending, with a clean-up of the buyer's token rows added.
challenge_mark_sweeping ==
    \E r \in Running("challenge", "mark") :
        /\ transactions' = UpdateTx(r.token, MarkPending)
        /\ tokens' = {row \in tokens : row.user_id # r.buyer_id}
        /\ Finish(r, [ChallengeResp(r.caller, r.token) EXCEPT !.detail = "challenge_opened"])
        /\ UNCHANGED <<users, issued, started>>

\* Mark challenge pending; answer challenge_opened.
challenge_mark ==
    \E r \in Running("challenge", "mark") :
        /\ transactions' = UpdateTx(r.token, MarkPending)
        /\ Finish(r, [ChallengeResp(r.caller, r.token) EXCEPT !.detail = "challenge_opened"])
        /\ UNCHANGED <<users, tokens, issued, started>>

\* ------------------------------------------------------- resolve_challenge

ResolveResp(token, outcome) ==
    [NoResp EXCEPT !.op = "resolve_challenge", !.token = token, !.outcome = outcome]

\* POST /resolve_challenge: admin gate, outcome check, select the transaction,
\* check that its challenge is pending.
\* (req.outcome or "").strip().lower(), on the outcome strings of the model.
strip_lower(outcome) == IF outcome = " Valid" THEN "valid" ELSE outcome

\* The handler, for the admin keys and outcomes clients send and the values
\* ADMIN_KEY can have in the server's environment.
resolve_challenge_with(keys, outcomes, environ) ==
    /\ started < MaxReqs
    /\ \E x_admin_key \in keys, req_outcome \in outcomes, token \in Presentable,
          expected \in environ :
        LET gate == _require_admin(x_admin_key, expected)
            outcome == strip_lower(req_outcome)
            resp == [ResolveResp(token, req_outcome) EXCEPT !.key = x_admin_key,
                                                            !.configured = expected]
            data == TxRows(token)
            tx == transactions[Min(data)]
            r == [NoReq EXCEPT !.op = "resolve_challenge", !.token = token,
                               !.caller = x_admin_key, !.outcome = req_outcome]
        IN  IF gate # 200
              THEN Answer([resp EXCEPT !.status = gate])
            ELSE IF outcome \notin {"valid", "invalid"}
              THEN Answer([resp EXCEPT !.status = 400,
                                       !.detail = "Outcome must be 'valid' or 'invalid'"])
            ELSE IF data = {}
              THEN Answer([resp EXCEPT !.status = 404])
            ELSE IF ~tx.challenged \/ tx.challenge_status # "pending"
              THEN Answer([resp EXCEPT !.status = 400,
                                       !.detail = "Challenge is not pending"])
            ELSE Admit([r EXCEPT !.pc = IF outcome = "valid" THEN "read_rep"
                                                             ELSE "mark_invalid",
                                 !.buyer_id = tx.buyer_id, !.seller_id = tx.seller_id,
                                 !.stake = tx.challenge_stake])
    /\ UNCHANGED <<users, tokens, transactions, issued>>

\* POST /resolve_challenge by the admin, on a server with ADMIN_KEY set.
resolve_challenge == resolve_challenge_with(AdminKeys, Outcomes, {ADMIN_KEY})

\* Penalize seller, first round trip: read the reputation.
resolve_read_rep ==
    \E r \in Running("resolve_challenge", "read_rep") :
        /\ Continue(r, [r EXCEPT !.pc = "write_rep",
                          !.rep = IF r.seller_id \in Users
                                    THEN users[r.seller_id].reputation ELSE 0])
        /\ UNCHANGED <<users, tokens, transactions, issued, started>>

\* The penalty written without its floor at 0.
resolve_write_rep_unfloored ==
    \E r \in Running("resolve_challenge", "write_rep") :
        /\ users' = IF r.seller_id \in Users
                      THEN [users EXCEPT ![r.seller_id].reputation =
                                             r.rep - SELLER_PENALTY_VALID]
                      ELSE users
        /\ Continue(r, [r EXCEPT !.pc = IF r.stake > 0 THEN "read_bal" ELSE "mark_valid"])
        /\ UNCHANGED <<tokens, transactions, issued, started>>

\* Penalize seller, second round trip: write max(0, rep - SELLER_PENALTY_VALID).
resolve_write_rep ==
    \E r \in Running("resolve_challenge", "write_rep") :
        /\ users' = IF r.seller_id \in Users
                      THEN [users EXCEPT ![r.seller_id].reputation =
                                             Max0(r.rep - SELLER_PENALTY_VALID)]
                      ELSE users
        /\ Continue(r, [r EXCEPT !.pc = IF r.stake > 0 THEN "read_bal" ELSE "mark_valid"])
        /\ UNCHANGED <<tokens, transactions, issued, started>>

\* Refund buyer stake, first round trip: read the balance.
resolve_read_bal ==
    \E r \in Running("resolve_challenge", "read_bal") :
        /\ Continue(r, [r EXCEPT !.pc = "write_bal",
                          !.balance = IF r.buyer_id \in Users
                                        THEN users[r.buyer_id].balance ELSE 0])
        /\ UNCHANGED <<users, tokens, transactions, issued, started>>

\* Refund buyer stake, second round trip: write bal + stake.
resolve_write_bal ==
    \E r \in Running("resolve_challenge", "write_bal") :
        /\ users' = IF r.buyer_id \in Users
                      THEN [users EXCEPT ![r.buyer_id].balance = r.balance + r.stake]
                      ELSE users
        /\ Continue(r, [r EXCEPT !.pc = "mark_valid"])
        /\ UNCHANGED <<tokens, transactions, issued, started>>

MarkValid ==
    [challenge_status |-> "valid", challenge_resolved_at |-> "resolved_at"]

MarkInvalid ==
    [challenge_status |-> "invalid", challenge_resolved_at |-> "resolved_at"]

\* Mark resolved (outcome valid); answer resolved.
resolve_mark_valid ==
    \E r \in Running("resolve_challenge", "mark_valid") :
        /\ transactions' = UpdateTx(r.token, MarkValid)
        /\ Finish(r, [ResolveResp(r.token, r.outcome) EXCEPT !.detail = "resolved"])
        /\ UNCHANGED <<users, tokens, issued, started>>

\* Mark resolved (outcome invalid); answer resolved.
resolve_mark_invalid ==
    \E r \in Running("resolve_challenge", "mark_invalid") :
        /\ transactions' = UpdateTx(r.token, MarkInvalid)
        /\ Finish(r, [ResolveResp(r.token, r.outcome) EXCEPT !.detail = "resolved"])
        /\ UNCHANGED <<users, tokens, issued, started>>

\* ------------------------------------------------------------------- Next

Next ==
    \/ request_access
    \/ request_access_lock
    \/ request_access_insert
    \/ verify_token
    \/ verify_burn
    \/ verify_read_escrow
    \/ verify_write_escrow
    \/ verify_read_seller
    \/ verify_write_seller
    \/ verify_record
    \/ open_challenge
    \/ challenge_read_balance
    \/ challenge_write_balance
    \/ challenge_mark
    \/ resolve_challenge
    \/ resolve_read_rep
    \/ resolve_write_rep
    \/ resolve_read_bal
    \/ resolve_write_bal
    \/ resolve_mark_valid
    \/ resolve_mark_invalid

Spec == Init /\ [][Next]_vars

\* ------------------------------------------------- one request at a time

\* The store of the end-to-end scenarios: the buyer holds HappyBalance credits.
InitHappy ==
    /\ users = [u \in Users |->
                 [balance |-> IF u = "b1" THEN HappyBalance ELSE 0,
                  escrow_balance |-> 0, total_earned |-> 0, reputation |-> 0]]
    /\ tokens = {}
    /\ transactions = <<>>
    /\ issued = 0
    /\ inflight = EmptyBag
    /\ responses = EmptyBag
    /\ started = 0
    /\ expired = {}

\* A client that waits for each response before it sends the next request.
Idle == inflight = EmptyBag

NextSeq ==
    \/ Idle /\ request_access
    \/ request_access_lock
    \/ request_access_insert
    \/ Idle /\ verify_token
    \/ verify_burn
    \/ verify_read_escrow
    \/ verify_write_escrow
    \/ verify_read_seller
    \/ verify_write_seller
    \/ verify_record
    \/ Idle /\ open_challenge
    \/ challenge_read_balance
    \/ challenge_write_balance
    \/ challenge_mark
    \/ Idle /\ resolve_challenge
    \/ resolve_read_rep
    \/ resolve_write_rep
    \/ resolve_read_bal
    \/ resolve_write_bal
    \/ resolve_mark_valid
    \/ resolve_mark_invalid

SpecSeq == InitHappy /\ [][NextSeq]_vars

\* ------------------------------------------------------- store call fails

\* The .execute() a handler is about to make raises (the store is unreachable
\* or rejects the call): no handler catches it, the request ends with a 500
\* and what its earlier round trips wrote stays written.
execute_raises ==
    \E r \in BagToSet(inflight) :
        /\ Finish(r, [NoResp EXCEPT !.op = r.op, !.caller = r.caller, !.token = r.token,
                                    !.idem = r.idem, !.status = 500,
                                    !.detail = "Internal Server Error"])
        /\ UNCHANGED <<users, tokens, transactions, issued, started>>

NextFail ==
    \/ Next
    \/ execute_raises

SpecFail == Init /\ [][NextFail]_vars

\* ------------------------------------------------- clients without a key

\* Headers of clients that are no principal: a key whose hash is in no users
\* row, and no header at all.
StrangerKeys == {"key_x", None}

\* POST /request_access, GET /verify/{token} and POST /challenge from anyone.
request_access_any == request_access_from(BuyerKeys \cup StrangerKeys)

verify_token_any == verify_token_from(SellerKeys \cup StrangerKeys)

open_challenge_any == open_challenge_from(BuyerKeys \cup StrangerKeys)

NextAuth ==
    \/ request_access_any
    \/ request_access_lock
    \/ request_access_insert
    \/ verify_token_any
    \/ verify_burn
    \/ verify_read_escrow
    \/ verify_write_escrow
    \/ verify_read_seller
    \/ verify_write_seller
    \/ verify_record
    \/ open_challenge_any
    \/ challenge_read_balance
    \/ challenge_write_balance
    \/ challenge_mark

SpecAuth == Init /\ [][NextAuth]_vars

\* ------------------------------------------------ sellers that do not exist

\* A seller_id with no row in the users table.
NoSuchSeller == "s9"

\* POST /request_access naming any seller_id.
request_access_any_seller ==
    request_access_for(BuyerKeys, SellerIds \cup {NoSuchSeller}, IdemKeys)

NextSellers ==
    \/ request_access_any_seller
    \/ request_access_lock
    \/ request_access_insert
    \/ verify_token
    \/ verify_burn
    \/ verify_read_escrow
    \/ verify_write_escrow
    \/ verify_read_seller
    \/ verify_write_seller
    \/ verify_record

SpecSellers == Init /\ [][NextSellers]_vars

\* ------------------------------------------------------ expiry and sweep

\* The clock reaches the expiry time of the oldest token that has not expired
\* yet: every token lives for the same TTL, so tokens expire in the order of
\* their creation.
expire ==
    LET token == Cardinality(expired) + 1
    IN  /\ token <= issued
        /\ expired' = expired \cup {token}
        /\ UNCHANGED <<users, tokens, transactions, issued, inflight, responses, started>>

\* The selection with its time comparison one expiry late: a row is taken only
\* once the token minted after it has expired too.
Due_late == {row \in tokens : row.token + 1 \in expired}

\* TX_SWEEP's selection: the token rows with expires_at <= now.
Due == {row \in tokens : row.token \in expired}

\* The refund that empties the buyer's escrow instead of taking the token's
\* amount out of it.
Refund_all(buyer_id) ==
    [users EXCEPT ![buyer_id].balance = @ + users[buyer_id].escrow_balance,
                  ![buyer_id].escrow_balance = 0]

\* TX_SWEEP's refund: the token's amount leaves the buyer's escrow and is
\* the buyer's to spend again.
Refund(buyer_id) ==
    [users EXCEPT ![buyer_id].balance = @ + COST,
                  ![buyer_id].escrow_balance = @ - COST]

\* POST /sweep_expired, one TX_SWEEP of one row: check the admin key, select
\* an expired token row, delete it and refund its buyer; the response carries
\* the token reclaimed, or BogusToken when swept is 0.  A sweep that finds a
\* row is the operator's periodic job and runs whatever the clients sent.
sweep_expired ==
    \E x_admin_key \in AdminKeys :
        LET gate == _require_admin(x_admin_key, ADMIN_KEY)
            resp == [NoResp EXCEPT !.op = "sweep_expired", !.key = x_admin_key]
        IN  IF gate # 200
              THEN /\ started < MaxReqs
                   /\ Answer([resp EXCEPT !.status = gate])
                   /\ UNCHANGED <<users, tokens, transactions, issued>>
            ELSE IF Due = {}
              THEN /\ started < MaxReqs
                   /\ Answer(resp)
                   /\ UNCHANGED <<users, tokens, transactions, issued>>
            ELSE \E row \in Due :
                   /\ tokens' = tokens \ {row}
                   /\ users' = Refund(row.user_id)
                   /\ Answer([resp EXCEPT !.token = row.token])
                   /\ UNCHANGED <<transactions, issued>>

NextSweep ==
    \/ request_access
    \/ request_access_lock
    \/ request_access_insert
    \/ verify_token
    \/ verify_burn
    \/ verify_read_escrow
    \/ verify_write_escrow
    \/ verify_read_seller
    \/ verify_write_seller
    \/ verify_record
    \/ expire
    \/ sweep_expired

SpecSweep == Init /\ [][NextSweep]_vars

\* Tokens minted and left alone, or presented by their seller: one client
\* key each, one idempotency key.
request_access_once == request_access_for(BuyerKeys, SellerIds, {"k1"})

verify_token_bound == verify_token_from({"key_s1"})

NextReclaim ==
    \/ request_access_once
    \/ request_access_lock
    \/ request_access_insert
    \/ verify_token_bound
    \/ verify_burn
    \/ verify_read_escrow
    \/ verify_write_escrow
    \/ verify_read_seller
    \/ verify_write_seller
    \/ verify_record
    \/ expire
    \/ sweep_expired

\* A handler that has started runs to its end, the clock goes on, and the
\* operator keeps calling the sweep.
FairSweep ==
    /\ WF_vars(request_access_lock)
    /\ WF_vars(request_access_insert)
    /\ WF_vars(verify_burn)
    /\ WF_vars(verify_read_escrow)
    /\ WF_vars(verify_write_escrow)
    /\ WF_vars(verify_read_seller)
    /\ WF_vars(verify_write_seller)
    /\ WF_vars(verify_record)
    /\ WF_vars(expire)
    /\ WF_vars(sweep_expired)

SpecReclaim == Init /\ [][NextReclaim]_vars /\ FairSweep

\* ------------------------------------------- challenges on a settled ledger

\* The store after the buyer, funded with funds, minted n tokens for s1 and s1
\* verified each of them, one request after the other.
SettledStore(funds, n) ==
    /\ users = [u \in Users |->
                 [balance |-> IF u = "b1" THEN funds - n * COST ELSE 0,
                  escrow_balance |-> 0,
                  total_earned |-> IF u = "s1" THEN n * COST ELSE 0,
                  reputation |-> IF u = "s1" THEN n ELSE 0]]
    /\ tokens = {}
    /\ transactions = [i \in 1..n |-> TxRow("b1", "s1", i)]
    /\ issued = n

\* The service with some settlements behind it and no request in progress.
InitSettled ==
    /\ \E n \in 1..(InitBalance \div COST) : SettledStore(InitBalance, n)
    /\ inflight = EmptyBag
    /\ responses = EmptyBag
    /\ started = 0
    /\ expired = {}

\* POST /challenge by any principal that holds an API key.
open_challenge_by_any == open_challenge_from(BuyerKeys \cup SellerKeys)

NextChallenge ==
    \/ open_challenge_by_any
    \/ challenge_read_balance
    \/ challenge_write_balance
    \/ challenge_mark
    \/ resolve_challenge
    \/ resolve_read_rep
    \/ resolve_write_rep
    \/ resolve_read_bal
    \/ resolve_write_bal
    \/ resolve_mark_valid
    \/ resolve_mark_invalid

SpecChallenge == InitSettled /\ [][NextChallenge]_vars

\* ----------------------------------------- resolve_challenge, one at a time

\* Outcome strings an admin client sends.
RawOutcomes == Outcomes \cup {" Valid", "refund"}

\* A seller with a reputation below the penalty, or one above it.
InitPenalty ==
    /\ \E n \in {1, SELLER_PENALTY_VALID + 1} : SettledStore(HappyBalance, n)
    /\ inflight = EmptyBag
    /\ responses = EmptyBag
    /\ started = 0
    /\ expired = {}

\* POST /resolve_challenge with any outcome string.
resolve_challenge_raw == resolve_challenge_with(AdminKeys, RawOutcomes, {ADMIN_KEY})

NextResolveSeq ==
    \/ Idle /\ open_challenge
    \/ challenge_read_balance
    \/ challenge_write_balance
    \/ challenge_mark
    \/ Idle /\ resolve_challenge_raw
    \/ resolve_read_rep
    \/ resolve_write_rep
    \/ resolve_read_bal
    \/ resolve_write_bal
    \/ resolve_mark_valid
    \/ resolve_mark_invalid

SpecResolveSeq == InitPenalty /\ [][NextResolveSeq]_vars

\* ------------------------------------------------------------ admin gate

\* x-admin-key headers: the admin's, a guess, or none.
AnyAdminKeys == AdminKeys \cup {"guess", None}

\* os.environ.get("ADMIN_KEY") at the time of a call: set, or not set.
Environ == {ADMIN_KEY, None}

\* POST /resolve_challenge by anyone, whatever the server's configuration.
resolve_challenge_by_any == resolve_challenge_with(AnyAdminKeys, Outcomes, Environ)

NextAdmin ==
    \/ open_challenge
    \/ challenge_read_balance
    \/ challenge_write_balance
    \/ challenge_mark
    \/ resolve_challenge_by_any
    \/ resolve_read_rep
    \/ resolve_write_rep
    \/ resolve_read_bal
    \/ resolve_write_bal
    \/ resolve_mark_valid
    \/ resolve_mark_invalid

\* The service with one settlement behind it and no request in progress.
InitSettledOnce ==
    /\ SettledStore(InitBalance, 1)
    /\ inflight = EmptyBag
    /\ responses = EmptyBag
    /\ started = 0
    /\ expired = {}

SpecAdmin == InitSettledOnce /\ [][NextAdmin]_vars

\* =========================================================== properties

Sent == BagToSet(responses)

\* No request is between two round trips.
Quiescent == inflight = EmptyBag

\* How many responses satisfy a condition, given the set of the distinct ones.
Copies(S) == BagCardinality([x \in S |-> responses[x]])

Settled(token) == {x \in Sent : x.op = "verify" /\ x.token = token /\ x.valid = "true"}

ValidTrueCount(token) == Copies(Settled(token))

Minted == {x \in Sent : x.op = "request_access" /\ x.status = 200}

VerifyInFlight(token) == \E r \in BagToSet(inflight) : r.op = "verify" /\ r.token = token

LedgerSum(buyer_id) ==
    COST * Cardinality({i \in 1..Len(transactions) : transactions[i].buyer_id = buyer_id})

LiveTokens(buyer_id) == {row \in tokens : row.user_id = buyer_id}

\* ---------------------------------------------------------------------- C1
\* C1: for every token, whatever the interleaving of the store calls of the
\* verify handlers, at most one verify call is answered valid:true.
AtMostOnceSettlement == \A token \in 1..issued : ValidTrueCount(token) <= 1

\* Two verify calls of the bound seller both selected the live row of the same
\* token; one was answered valid:true, the other lost the delete.
AtMostOnceSettlement_witness ==
    \E x \in Sent, y \in Sent :
        /\ x.op = "verify" /\ y.op = "verify" /\ x.token = y.token
        /\ x.live /\ y.live
        /\ x.valid = "true" /\ y.valid = "false"

\* ---------------------------------------------------------------------- C2
\* C2: all request_access calls of one buyer that carry the same idempotency
\* key are answered with the same auth_token (no second token for a key).
IdempotentMint ==
    \A x \in Minted, y \in Minted :
        (x.caller = y.caller /\ x.idem = y.idem) => x.token = y.token

\* ---------------------------------------------------------------------- C3
\* C3: once N >= 1 request_access calls of one buyer with one idempotency key
\* have all completed and nothing else ran, the buyer's balance is down by
\* exactly COST and the escrow up by exactly COST.
ExactlyOnceDebit ==
    \A k \in IdemKeys :
        (/\ Quiescent
         /\ started >= 1
         /\ \A x \in Sent : x.op = "request_access" /\ x.caller = "b1" /\ x.idem = k)
        => /\ users["b1"].balance = InitBalance - COST
           /\ users["b1"].escrow_balance = COST

\* ---------------------------------------------------------------------- C4
\* C4: a buyer that starts with balance b gets at most floor(b / COST)
\* auth_tokens, in any interleaving of request_access calls.
NoDoubleSpend == Copies(Minted) <= InitBalance \div COST

\* ---------------------------------------------------------------------- C5
\* C5: in every quiescent state, for every buyer, COST times the number of
\* the buyer's token rows is at most the buyer's escrow_balance.
EscrowBacking ==
    Quiescent =>
        \A b \in Users : COST * Cardinality(LiveTokens(b)) <= users[b].escrow_balance

\* ---------------------------------------------------------------------- C6
\* No challenge or resolve_challenge request has been received.
NoChallengeActivity ==
    \A x \in Sent : x.op \notin {"challenge", "resolve_challenge"}

\* C6: with no challenge activity, balance + escrow_balance + the amounts of
\* the buyer's ledger rows has the same value in every quiescent state.
Conservation ==
    (Quiescent /\ NoChallengeActivity) =>
        users["b1"].balance + users["b1"].escrow_balance + LedgerSum("b1") = InitBalance

\* ---------------------------------------------------------------------- C7
\* C7: in every reachable state, also in the middle of a request, every
\* principal's balance, escrow_balance, total_earned and reputation are >= 0.
NoNegativePools ==
    \A u \in Users :
        /\ users[u].balance >= 0
        /\ users[u].escrow_balance >= 0
        /\ users[u].total_earned >= 0
        /\ users[u].reputation >= 0

\* A verify is in the middle of its request after writing back an escrow that
\* max(0, ..) clamped: it had read less than COST for the token it burned.
NoNegativePools_witness ==
    \E r \in BagToSet(inflight) :
        /\ r.op = "verify" /\ r.pc = "read_seller"
        /\ r.escrow < COST
        /\ users[r.buyer_id].escrow_balance = 0

\* ---------------------------------------------------------------------- C8
\* A verify of the bound seller selected the token's row while it existed.
VerifiedLive(token) ==
    \E x \in Sent : x.op = "verify" /\ x.token = token /\ x.live /\ x.status # 403

\* C8: when the bound seller verified a live token and every verify call on
\* it has completed, exactly one call was answered valid:true (never zero).
SettlementHappens ==
    \A token \in 1..issued :
        (VerifiedLive(token) /\ ~VerifyInFlight(token)) => ValidTrueCount(token) = 1

\* A token settled once and verified again afterwards (the row was gone), with
\* every call completed.
SettlementHappens_witness ==
    /\ Quiescent
    /\ \E x \in Sent, y \in Sent :
        /\ x.op = "verify" /\ y.op = "verify" /\ x.token = y.token
        /\ x.valid = "true"
        /\ y.valid = "false" /\ ~y.live /\ y.caller = x.caller

\* ---------------------------------------------------------------------- C9
\* C9: every verify call on a token that has already been consumed is
\* answered valid:false with the error code ALREADY_USED.
AlreadyUsedCode ==
    \A x \in Sent :
        (x.op = "verify" /\ x.token \in 1..issued /\ x.valid = "false")
            => x.error = "ALREADY_USED"

\* --------------------------------------------------------------------- C10
\* This step answers a verify with 403.
Answered403 ==
    \E x \in BagToSet(responses') :
        /\ x.op = "verify" /\ x.status = 403
        /\ CopiesIn(x, responses') > CopiesIn(x, responses)

\* Whoever was answered valid:true is the seller of the token's ledger row.
OnlyBoundSellerSettles ==
    \A x \in Sent :
        (x.op = "verify" /\ x.valid = "true") =>
            \E i \in TxRows(x.token) : transactions[i].seller_id = x.caller

\* A verify of the bound seller that arrived after the 403 and found the row:
\* once every verify of the token has completed, one was answered valid:true.
LaterVerifySettles ==
    \A x \in Sent :
        (/\ x.op = "verify" /\ x.after403 /\ x.live /\ x.status # 403
         /\ ~VerifyInFlight(x.token))
        => ValidTrueCount(x.token) = 1

\* C10: a verify by an authenticated seller other than the token's bound
\* seller changes nothing in the store and never settles; the token stays
\* live, and the bound seller's later verify is still answered valid:true.
WrongSellerNoEffect ==
    /\ [][Answered403 => UNCHANGED store]_vars
    /\ [](OnlyBoundSellerSettles /\ LaterVerifySettles)

\* A seller the token is not bound to got its 403 while the row was live, and
\* a verify of the bound seller that arrived afterwards was answered valid:true.
WrongSellerNoEffect_witness ==
    \E x \in Sent, y \in Sent :
        /\ x.op = "verify" /\ x.status = 403 /\ x.live
        /\ y.op = "verify" /\ y.token = x.token /\ y.after403 /\ y.valid = "true"
        /\ y.caller # x.caller

\* The responses sent and the requests admitted by the step at hand.
NewResponses == {x \in BagToSet(responses') : CopiesIn(x, responses') > CopiesIn(x, responses)}

NewRequests == {r \in BagToSet(inflight') : CopiesIn(r, inflight') > CopiesIn(r, inflight)}

\* The step at hand is the first round trip of a request.
Arrival == started' = started + 1

\* --------------------------------------------------------------------- C11
\* C11: a request_access of a buyer whose balance is below COST is answered
\* 402, creates no token row and leaves the balance and escrow unchanged.
InsufficientFunds ==
    [][\A b \in Users :
         (Arrival /\ users[b].balance < COST) =>
            /\ \A r \in NewRequests : ~(r.op = "request_access" /\ r.caller = b)
            /\ \A x \in NewResponses :
                 (x.op = "request_access" /\ x.caller = b) =>
                    (x.status = 402 /\ UNCHANGED <<store, issued>>)]_vars

\* A buyer whose balance had fallen below COST, its credits locked or settled,
\* asked for access and got its 402.
InsufficientFunds_witness ==
    \E x \in Sent :
        /\ x.op = "request_access" /\ x.status = 402
        /\ users[x.caller].balance < COST
        /\ Cardinality(LiveTokens(x.caller)) + LedgerSum(x.caller) > 0

\* --------------------------------------------------------------------- C12
\* C12: run one after the other from balance 100 and escrow 0, a request_access
\* yields a token and leaves balance 90 and escrow 10; the bound seller's
\* verify is then answered valid:true with the buyer's id and leaves balance
\* 90, escrow 0, the seller's total_earned 10 and reputation 1, one ledger
\* row and no token row.
HappyPath ==
    \A m \in Sent : \A s \in SellerIds :
        (m.op = "request_access" /\ Quiescent) =>
          /\ started = 1 =>
               /\ m.status = 200 /\ m.token \in 1..issued
               /\ users[m.caller].balance = HappyBalance - COST
               /\ users[m.caller].escrow_balance = COST
               /\ tokens = {[token |-> m.token, user_id |-> m.caller, seller_id |-> s]}
          /\ \A v \in Sent :
               (started = 2 /\ v.op = "verify" /\ v.token = m.token /\ v.caller = s) =>
                 /\ v.valid = "true" /\ v.buyer_id = m.caller
                 /\ users[m.caller].balance = HappyBalance - COST
                 /\ users[m.caller].escrow_balance = 0
                 /\ users[s].total_earned = COST
                 /\ users[s].reputation = 1
                 /\ Len(transactions) = 1
                 /\ transactions[1].token = m.token
                 /\ transactions[1].buyer_id = m.caller
                 /\ transactions[1].seller_id = s
                 /\ tokens = {}

\* The mint and then the bound seller's verify have both been answered.
HappyPath_witness ==
    /\ started = 2 /\ Quiescent
    /\ \E m \in Sent, v \in Sent :
        /\ m.op = "request_access" /\ m.status = 200
        /\ v.op = "verify" /\ v.token = m.token /\ v.valid = "true"

\* The ledger rows that pay a seller.
SellerRows(seller_id) == {i \in 1..Len(transactions) : transactions[i].seller_id = seller_id}

\* Every token issued so far has been answered valid:true to its seller.
AllVerified == issued >= 1 /\ \A token \in 1..issued : ValidTrueCount(token) = 1

\* --------------------------------------------------------------------- C13
\* C13: once every token a buyer minted has been verified by the bound seller
\* and no request is running, no token row is left and the buyer's
\* escrow_balance is back to its value before the mints.
AllSettledEndState ==
    (Quiescent /\ AllVerified) =>
        /\ tokens = {}
        /\ \A m \in Minted : users[m.caller].escrow_balance = 0

\* --------------------------------------------------------------------- C14
\* C14: in every quiescent state with no challenge activity, each seller's
\* total_earned is the sum of the amounts of the seller's ledger rows and its
\* reputation the number of those rows.
SellerPaidExactly ==
    (Quiescent /\ NoChallengeActivity) =>
        \A s \in Users :
            /\ users[s].total_earned = COST * Cardinality(SellerRows(s))
            /\ users[s].reputation = Cardinality(SellerRows(s))

\* --------------------------------------------------------------------- C15
\* C15: every token ever minted has at most one ledger row, and a token id
\* that was issued is never handed out again by a later request_access.
LedgerUniqueness ==
    /\ \A token \in 1..issued : Cardinality(TxRows(token)) <= 1
    /\ \A x \in Minted, y \in Minted :
          x.token = y.token => (x = y /\ CopiesIn(x, responses) = 1)
    /\ \A row \in tokens : Cardinality(TokenRows(row.token)) = 1

\* Two verify calls raced for one token, both having selected its row, and
\* the token got its ledger row; another token was minted besides.
LedgerUniqueness_witness ==
    /\ Copies(Minted) >= 2
    /\ \E x \in Sent, y \in Sent :
        /\ x.op = "verify" /\ y.op = "verify" /\ x.token = y.token
        /\ x.live /\ y.live /\ x.valid = "true" /\ y.valid = "false"
        /\ TxRows(x.token) # {}

\* --------------------------------------------------------------------- C16
\* C16: every ledger row's token was handed out by a request_access and has
\* no row in the tokens table: no token is both live and recorded as settled.
LedgerConsistency ==
    \A i \in 1..Len(transactions) :
        /\ \E m \in Minted : m.token = transactions[i].token
        /\ TokenRows(transactions[i].token) = {}

\* One token has its ledger row while another token is still live.
LedgerConsistency_witness ==
    /\ Len(transactions) >= 1
    /\ \E row \in tokens : TxRows(row.token) = {}

\* --------------------------------------------------------------------- C17
\* C17: the step that removes a token's row also puts in place the buyer's
\* escrow decrement, the seller's credit (total_earned + COST, reputation + 1)
\* and the ledger row, so that no other request sees the one without the rest.
SettleIsOneCommit ==
    [][\A row \in tokens \ tokens' :
         /\ users'[row.user_id].escrow_balance = DeductedEscrow(users[row.user_id].escrow_balance)
         /\ users'[row.seller_id].total_earned = users[row.seller_id].total_earned + COST
         /\ users'[row.seller_id].reputation = users[row.seller_id].reputation + 1
         /\ transactions' = Append(transactions, TxRow(row.user_id, row.seller_id, row.token))]_vars

\* The users table before the first request.
UsersAtStart ==
    [u \in Users |->
       [balance |-> IF u = "b1" THEN InitBalance ELSE 0,
        escrow_balance |-> 0, total_earned |-> 0, reputation |-> 0]]

\* Every request so far ended with an error status.
OnlyErrors == \A x \in Sent : x.status >= 400

\* --------------------------------------------------------------------- C18
\* C18: a request that ends with an error response, or stops partway because
\* a store call fails, leaves the store as it was: when every request so far
\* has ended that way, the three tables are what they were at the start.
NoPartialEffect ==
    (Quiescent /\ OnlyErrors) =>
        /\ users = UsersAtStart
        /\ tokens = {}
        /\ transactions = <<>>

\* The step at hand is a round trip of the running request r.
Stepped(r) == CopiesIn(r, inflight') < CopiesIn(r, inflight)

\* --------------------------------------------------------------------- C19
\* C19: request_access and verify behave as if each ran in one atomic step:
\* every write to a principal's row applies the handler's change to the
\* row's value at the time of the write, not to a value read one round trip
\* earlier.
SerializableWrites ==
    [][\A r \in BagToSet(inflight) :
         Stepped(r) =>
           /\ (r.op = "request_access" /\ r.pc = "lock") =>
                 users' = [users EXCEPT ![r.buyer_id].balance = @ - COST,
                                        ![r.buyer_id].escrow_balance = @ + COST]
           /\ (r.op = "verify" /\ r.pc = "write_escrow") =>
                 users' = [users EXCEPT ![r.buyer_id].escrow_balance = DeductedEscrow(@)]
           /\ (r.op = "verify" /\ r.pc = "write_seller") =>
                 users' = [users EXCEPT ![r.seller_id].total_earned = @ + COST,
                                        ![r.seller_id].reputation = @ + 1]]_vars

\* The routes that authenticate with an api key header.
KeyedOps == {"request_access", "verify", "challenge"}

\* --------------------------------------------------------------------- C20
\* C20: a request_access, verify or challenge call without its key header is
\* answered 400, one whose key hashes to no principal is answered 401; such
\* a call goes no further than its first round trip and writes to no table.
AuthFailureChangesNothing ==
    [][Arrival =>
         /\ \A r \in NewRequests : r.op \in KeyedOps => r.caller \in Users
         /\ \A x \in NewResponses :
              (x.op \in KeyedOps /\ x.key = None) =>
                 (x.status = 400 /\ UNCHANGED <<store, issued>>)
         /\ \A x \in NewResponses :
              (x.op \in KeyedOps /\ x.key # None /\ _auth_user_id(x.key) = None) =>
                 (x.status = 401 /\ UNCHANGED <<store, issued>>)]_vars

\* After a token was minted and settled, a call with an unknown key got its
\* 401 and a call without a key its 400.
AuthFailureChangesNothing_witness ==
    /\ Len(transactions) >= 1
    /\ \E x \in Sent : x.op \in KeyedOps /\ x.key = "key_x" /\ x.status = 401
    /\ \E y \in Sent : y.op \in KeyedOps /\ y.key = None /\ y.status = 400

\* --------------------------------------------------------------------- C21
\* C21: a request_access naming a seller_id that is no principal is answered
\* 404, creates no token and leaves the buyer's balance and escrow unchanged:
\* no token is ever bound to a seller that does not exist.
UnknownSellerRejected ==
    \A row \in tokens :
        /\ row.seller_id \in Users
        /\ \E key \in SellerKeys : _auth_user_id(key) = row.seller_id

\* --------------------------------------------------------------------- C22
\* C22: a verify that arrives when the token's expiry time has passed never
\* settles it: it goes no further than its first round trip, so it is never
\* answered valid:true, credits no seller and appends no ledger row, also
\* while the token's row is still in the tokens table.
ExpiredNeverSettles ==
    [][Arrival => \A r \in NewRequests : r.op = "verify" => r.token \notin expired]_vars

\* A sweep reclaimed the token and refunded its buyer.
Swept(token) == \E x \in Sent : x.op = "sweep_expired" /\ x.token = token

EmptySweeps == {x \in Sent : x.op = "sweep_expired" /\ x.status = 200 /\ x.token = BogusToken}

\* --------------------------------------------------------------------- C24
\* C24: when a sweep_expired returns with nothing left to reclaim, no row of
\* the tokens table has an expiry time at or before now.
SweepCompleteness ==
    [][\A x \in NewResponses :
         (x.op = "sweep_expired" /\ x.status = 200 /\ x.token = BogusToken) =>
            \A row \in tokens' : row.token \notin expired']_vars

\* Sweeps reclaimed an expired token and then found nothing more, while a
\* token that has not expired is still live.
SweepCompleteness_witness ==
    /\ EmptySweeps # {}
    /\ \E token \in expired : Swept(token)
    /\ \E row \in tokens : row.token \notin expired

\* --------------------------------------------------------------------- C25
\* C25: a sweep that reclaims a token takes an expired row with no ledger row,
\* deletes it, lowers the buyer's escrow_balance by exactly COST and leaves the
\* ledger and every principal's total_earned and reputation as they were.
SweepRefund ==
    [][\A x \in NewResponses :
         (x.op = "sweep_expired" /\ x.token # BogusToken) =>
            \E row \in tokens :
                /\ row.token = x.token /\ row.token \in expired
                /\ TxRows(row.token) = {}
                /\ tokens' = tokens \ {row}
                /\ users'[row.user_id].escrow_balance =
                       users[row.user_id].escrow_balance - COST
                /\ transactions' = transactions
                /\ \A u \in Users :
                     /\ users'[u].total_earned = users[u].total_earned
                     /\ users'[u].reputation = users[u].reputation]_vars

\* One token was settled and paid to its seller; another, never redeemed, was
\* swept.
SweepRefund_witness ==
    /\ Len(transactions) >= 1
    /\ \E token \in 1..issued : Swept(token) /\ TxRows(token) = {}
    /\ \E u \in Users : users[u].total_earned >= COST

\* --------------------------------------------------------------------- C26
\* C26: when a verify and a sweep go for the same token, exactly one of them
\* gets it: never a ledger row and a refund for one token, and once the row
\* is gone and no verify of the token is running, one of the two is there.
ExpiryRace ==
    \A token \in 1..issued :
        /\ ~(TxRows(token) # {} /\ Swept(token))
        /\ (TokenRows(token) = {} /\ ~VerifyInFlight(token)) =>
              (TxRows(token) # {} \/ Swept(token))

\* The bound seller's verify had selected the token's row when a sweep
\* reclaimed the token: the verify, the only one of this token, lost the race.
ExpiryRace_witness ==
    \E x \in Sent :
        /\ x.op = "verify" /\ x.live /\ x.status = 200 /\ x.valid = "false"
        /\ Swept(x.token)
        /\ \A y \in Sent : (y.op = "verify" /\ y.token = x.token) => y = x
        /\ CopiesIn(x, responses) = 1

\* The columns verify fills when it records a settlement.
SettlementFields == {"buyer_id", "seller_id", "amount", "token"}

\* --------------------------------------------------------------------- C27
\* C27 as stated: once verify has inserted a ledger row, no later operation
\* changes any field of it.
LedgerRowsImmutable ==
    [][\A i \in 1..Len(transactions) :
         /\ Len(transactions') >= Len(transactions)
         /\ transactions'[i] = transactions[i]]_vars

\* C27 amended: a ledger row is never removed and its buyer_id, seller_id,
\* amount and token never change; challenge and resolve_challenge change its
\* challenge columns only.
LedgerSettlementImmutable ==
    [][\A i \in 1..Len(transactions) :
         /\ Len(transactions') >= Len(transactions)
         /\ \A f \in SettlementFields : transactions'[i][f] = transactions[i][f]]_vars

\* A ledger row went through a challenge and its resolution.
LedgerSettlementImmutable_witness ==
    \E i \in 1..Len(transactions) :
        /\ transactions[i].challenged
        /\ transactions[i].challenge_status \in {"valid", "invalid"}
        /\ transactions[i].amount = COST

\* --------------------------------------------------------------------- C28
\* C28: a principal's reputation never decreases; when it changes, it grows
\* by exactly 1.
ReputationMonotone ==
    [][\A u \in Users :
         \/ users'[u].reputation = users[u].reputation
         \/ users'[u].reputation = users[u].reputation + 1]_vars

\* The routes of the challenge subsystem.
ChallengeOps == {"challenge", "resolve_challenge"}

\* The step at hand is a round trip of a challenge or resolve_challenge call.
ChallengeStep ==
    \/ \E r \in BagToSet(inflight) : r.op \in ChallengeOps /\ Stepped(r)
    \/ \E r \in NewRequests : r.op \in ChallengeOps
    \/ \E x \in NewResponses : x.op \in ChallengeOps

\* --------------------------------------------------------------------- C29
\* C29: no round trip of challenge or resolve_challenge, whatever its outcome,
\* creates, alters or deletes a row of the tokens table.
ChallengeLeavesTokens == [][ChallengeStep => tokens' = tokens]_vars

\* A challenge was opened on a settled token while another token was live.
ChallengeLeavesTokens_witness ==
    /\ tokens # {}
    /\ \E x \in Sent : x.op = "challenge" /\ x.detail = "challenge_opened"

\* What the caller receives: the status and the JSON body of a response.
Body(x) ==
    [status |-> x.status, valid |-> x.valid, error |-> x.error,
     buyer_id |-> x.buyer_id, detail |-> x.detail]

\* Verify calls answered for a token that was gone: consumed before the call
\* selected it, or burned by another call in between.
AnsweredConsumed ==
    {x \in Sent : x.op = "verify" /\ x.token # BogusToken /\ x.status = 200
                    /\ x.valid = "false"}

\* Verify calls of authenticated sellers for a token id that never existed.
AnsweredNeverExisted ==
    {x \in Sent : x.op = "verify" /\ x.token = BogusToken /\ x.caller # None}

\* --------------------------------------------------------------------- C30
\* C30: the same seller receives the same response from verify for a token
\* id that never existed and for a token that existed and was consumed.
TokenHistoryPrivate ==
    \A x \in AnsweredNeverExisted, y \in AnsweredConsumed :
        x.caller = y.caller => Body(x) = Body(y)

\* One seller asked about a token id that never existed and about a token
\* that had been settled before the call.
TokenHistoryPrivate_witness ==
    \E x \in AnsweredNeverExisted, y \in AnsweredConsumed :
        /\ x.caller = y.caller
        /\ ~y.live /\ TxRows(y.token) # {}

\* The round trips of verify that come after its delete of the token row.
AfterBurn == {"read_escrow", "write_escrow", "read_seller", "write_seller", "record"}

\* --------------------------------------------------------------------- C31
\* C31: verify deletes the token row before it credits the seller and inserts
\* the ledger row: a verify past its delete, and a ledger row, are never
\* there for a token whose row still exists.
BurnBeforeCredit ==
    /\ \A r \in BagToSet(inflight) :
          (r.op = "verify" /\ r.pc \in AfterBurn) => TokenRows(r.token) = {}
    /\ \A x \in Sent :
          (x.op = "verify" /\ x.valid = "true") => TokenRows(x.token) = {}

\* A verify has credited the seller and is about to insert the ledger row; the
\* token's row is gone.
BurnBeforeCredit_witness ==
    \E r \in Running("verify", "record") :
        /\ users[r.seller_id].total_earned >= COST
        /\ TxRows(r.token) = {}
        /\ TokenRows(r.token) = {}

\* --------------------------------------------------------------------- C32
\* C32: whenever verify decrements the escrow of a buyer whose token it has
\* burned, the escrow_balance it read for the decrement is at least COST:
\* max(0, escrow - COST) never clamps.
SaturationNeverExercised ==
    \A r \in Running("verify", "write_escrow") : r.escrow >= COST

\* The step at hand answers a verify with valid:false.
AnswersNoRow == \E x \in NewResponses : x.op = "verify" /\ x.valid = "false"

\* The verify requests the step at hand lets through its select or its delete.
PassedRowTest ==
    {r \in NewRequests : r.op = "verify" /\ r.pc \in {"burn", "read_escrow"}}

\* --------------------------------------------------------------------- C33
\* C33: a verify that finds no row for its token id, at its select or at its
\* delete, goes no further and is answered valid:false; the step that answers
\* it modifies no balance, escrow, total_earned, reputation, token row or
\* ledger row.
NoRowVerifyNoEffect ==
    /\ [][AnswersNoRow => UNCHANGED <<store, issued>>]_vars
    /\ [][\A r \in PassedRowTest : TokenRows(r.token) # {}]_vars

\* A seller was answered valid:false for a token id that never existed, and a
\* verify that selected a row found it gone at its delete and was answered
\* valid:false, the token being settled by the verify that burned it.
NoRowVerifyNoEffect_witness ==
    \E x \in AnsweredNeverExisted, y \in AnsweredConsumed :
        /\ x.valid = "false"
        /\ y.live
        /\ TokenRows(y.token) = {}

\* The challenge calls on a token that were answered challenge_opened.
Opened(token) ==
    {x \in Sent : x.op = "challenge" /\ x.token = token /\ x.detail = "challenge_opened"}

\* --------------------------------------------------------------------- C34
\* C34: for every settled token, among any number of challenge calls at most
\* one is answered challenge_opened.
ChallengedAtMostOnce == \A token \in 1..issued : Copies(Opened(token)) <= 1

\* The resolve_challenge calls on a token that were answered resolved.
Resolved(token) ==
    {x \in Sent : x.op = "resolve_challenge" /\ x.token = token /\ x.status = 200}

\* --------------------------------------------------------------------- C35
\* C35: for every challenge, among any number of resolve_challenge calls at
\* most one is answered resolved.
ResolvedAtMostOnce == \A token \in 1..issued : Copies(Resolved(token)) <= 1

\* The moves of challenge_status the lifecycle allows.
LifecycleMove(from, to) ==
    \/ from = to
    \/ from = None /\ to = "pending"
    \/ from = "pending" /\ to \in {"valid", "invalid"}

\* --------------------------------------------------------------------- C36
\* C36: a ledger row's challenge_status only moves from none to pending and
\* from pending to valid or invalid; valid and invalid never change again.
ChallengeLifecycle ==
    [][\A i \in 1..Len(transactions) :
         /\ i <= Len(transactions')
         /\ LifecycleMove(transactions[i].challenge_status,
                          transactions'[i].challenge_status)]_vars

\* Every challenge call answered challenge_opened, whatever its token.
AllOpened == {x \in Sent : x.op = "challenge" /\ x.detail = "challenge_opened"}

\* The resolve_challenge calls answered resolved whose outcome is one of a set.
ResolvedAs(outcomes) ==
    {x \in Sent : x.op = "resolve_challenge" /\ x.status = 200 /\ x.outcome \in outcomes}

\* With no request in progress, s1's reputation is what the settlements gave
\* it, lowered by the penalty (not below 0) once for each resolution whose
\* outcome counts as valid, and b1's balance is what the settlements left,
\* less the stakes of the challenges opened, plus the stakes given back.
EffectOf(valids) ==
    Quiescent =>
        /\ users["s1"].reputation =
               Max0(Len(transactions) - SELLER_PENALTY_VALID * Copies(ResolvedAs(valids)))
        /\ users["b1"].balance =
               HappyBalance - COST * Len(transactions)
                 - CHALLENGE_STAKE * Copies(AllOpened)
                 + CHALLENGE_STAKE * Copies(ResolvedAs(valids))

\* The token's ledger row carries a pending challenge.
PendingRow(token) ==
    \E i \in TxRows(token) : /\ transactions[i].challenged
                              /\ transactions[i].challenge_status = "pending"

\* A resolve_challenge call on a pending challenge whose outcome is not one of
\* a set is answered 400 by a step that changes nothing.
RejectedOutside(accepted) ==
    \A x \in NewResponses :
        (x.op = "resolve_challenge" /\ PendingRow(x.token) /\ x.outcome \notin accepted)
        => (x.status = 400 /\ UNCHANGED <<store, issued>>)

\* Outcome strings the handler takes for valid, and those it lets through.
TakenForValid == {o \in RawOutcomes : strip_lower(o) = "valid"}

LetThrough == {o \in RawOutcomes : strip_lower(o) \in {"valid", "invalid"}}

\* C37 as stated: with one request at a time, resolving a pending challenge
\* with outcome valid lowers the seller's reputation by SELLER_PENALTY_VALID,
\* not below 0, and gives the stake back; outcome invalid changes neither;
\* any outcome other than valid or invalid is answered 400 and changes nothing.
ResolveEffectAsStated ==
    /\ []EffectOf({"valid"})
    /\ [][RejectedOutside({"valid", "invalid"})]_vars

\* --------------------------------------------------------------------- C37
\* C37: with one request at a time, resolving a pending challenge with an
\* outcome that, trimmed and lower-cased, is valid lowers the seller's
\* reputation by SELLER_PENALTY_VALID, not below 0, and gives the stake back;
\* an outcome that is then invalid changes neither; any other outcome is
\* answered 400 and changes nothing.
ResolveEffect ==
    /\ []EffectOf(TakenForValid)
    /\ [][RejectedOutside(LetThrough)]_vars

\* A seller of reputation SELLER_PENALTY_VALID + 1 was penalized down to 1 and
\* the stake is back with the buyer, after another outcome for the same
\* challenge had been answered 400.
ResolveEffect_witness ==
    /\ Quiescent
    /\ Len(transactions) = SELLER_PENALTY_VALID + 1
    /\ users["s1"].reputation = 1
    /\ users["b1"].balance = HappyBalance - COST * Len(transactions)
    /\ \E x \in Sent, i \in 1..Len(transactions) :
          /\ x.op = "resolve_challenge" /\ x.status = 400
          /\ x.outcome \notin LetThrough
          /\ transactions[i].token = x.token
          /\ transactions[i].challenge_status = "valid"

\* The status open_challenge owes a caller for a token, by the rows the step
\* at hand starts from: 200 stands for going on to the stake.
ChallengeGate(caller, token) ==
    IF TxRows(token) = {} THEN 404
    ELSE IF transactions[Min(TxRows(token))].buyer_id # caller THEN 403
    ELSE IF transactions[Min(TxRows(token))].challenged THEN 400
    ELSE 200

\* The challenge calls of authenticated callers the step at hand answers in
\* its first round trip, and those it lets through to the stake.
ChallengesAnswered == {x \in NewResponses : x.op = "challenge" /\ x.caller # None /\ Arrival}

ChallengesAdmitted == {r \in NewRequests : r.op = "challenge" /\ r.pc = "read_balance"}

\* --------------------------------------------------------------------- C38
\* C38: challenge answers 404 when the token has no ledger row, 403 when the
\* caller is not the row's buyer, 400 when the row is already challenged and
\* 402 when the buyer's balance is below CHALLENGE_STAKE, and goes on to take
\* the stake in no such case; the step that rejects a challenge modifies no
\* balance and no ledger field.
RejectedChallengeNoEffect ==
    /\ [][\A x \in ChallengesAnswered :
             /\ x.status = ChallengeGate(x.caller, x.token)
             /\ x.status # 200
             /\ UNCHANGED <<store, issued>>]_vars
    /\ [][\A r \in ChallengesAdmitted : ChallengeGate(r.caller, r.token) = 200]_vars
    /\ [][\A x \in NewResponses :
             (x.op = "challenge" /\ x.status = 402)
             => (users[x.caller].balance < CHALLENGE_STAKE /\ UNCHANGED <<store, issued>>)]_vars
    /\ [][\A r \in NewRequests :
             (r.op = "challenge" /\ r.pc = "write_balance")
             => users[r.buyer_id].balance >= CHALLENGE_STAKE]_vars

\* A buyer with nothing left was answered 402, a seller 403 for the buyer's
\* transaction, and a token without a ledger row 404; balances and ledger are
\* as they were.
RejectedChallengeNoEffect_witness ==
    /\ \E x \in Sent : x.op = "challenge" /\ x.status = 402 /\ x.caller = "b1"
    /\ \E x \in Sent : x.op = "challenge" /\ x.status = 403 /\ TxRows(x.token) # {}
    /\ \E x \in Sent : x.op = "challenge" /\ x.status = 404
    /\ users["b1"].balance = 0
    /\ \A i \in 1..Len(transactions) : ~transactions[i].challenged

\* The resolve_challenge calls the step at hand answers in its first round
\* trip, and those it lets through to the resolution.
ResolvesAnswered == {x \in NewResponses : x.op = "resolve_challenge" /\ Arrival}

ResolvesAdmitted ==
    {r \in NewRequests : r.op = "resolve_challenge" /\ r.pc \in {"read_rep", "mark_invalid"}}

\* The statuses of the admin gate.
GateStatus == {400, 403, 500}

\* A call the gate turned away changes nothing, and a call that got past it
\* presented the configured key.
GateKeeps ==
    /\ \A x \in ResolvesAnswered :
          /\ (x.key = None \/ x.configured = None \/ x.key # x.configured)
                => x.status \in GateStatus
          /\ x.status \in GateStatus => UNCHANGED <<store, issued>>
    /\ \A r \in ResolvesAdmitted : r.caller = ADMIN_KEY

\* C39 as stated: resolve_challenge answers 500 whenever ADMIN_KEY is not
\* configured, 403 whenever the key presented differs from the configured
\* one, and 400 when the header is missing; in all three cases nothing
\* changes and no challenge is resolved.
AdminGateAsStated ==
    [][/\ \A x \in ResolvesAnswered :
             /\ x.configured = None => x.status = 500
             /\ (x.key # None /\ x.configured # None /\ x.key # x.configured)
                   => x.status = 403
             /\ x.key = None => x.status = 400
        /\ GateKeeps]_vars

\* --------------------------------------------------------------------- C39
\* C39: resolve_challenge answers 400 when the header is missing, otherwise
\* 500 when ADMIN_KEY is not configured, otherwise 403 when the key presented
\* differs from the configured one; in all three cases nothing changes and no
\* challenge is resolved.
AdminGate ==
    [][/\ \A x \in ResolvesAnswered :
             /\ x.key = None => x.status = 400
             /\ (x.key # None /\ x.configured = None) => x.status = 500
             /\ (x.key # None /\ x.configured # None /\ x.key # x.configured)
                   => x.status = 403
        /\ GateKeeps]_vars

\* With a challenge pending, the gate answered 400 to a call without header
\* on a server without ADMIN_KEY, 500 to a call with a key on such a server,
\* and 403 to a wrong key; the challenge is still pending.
AdminGate_witness ==
    /\ \E x \in Sent : /\ x.op = "resolve_challenge" /\ x.status = 400
                         /\ x.key = None /\ x.configured = None /\ PendingRow(x.token)
    /\ \E x \in Sent : /\ x.op = "resolve_challenge" /\ x.status = 500
                         /\ x.key # None /\ PendingRow(x.token)
    /\ \E x \in Sent : /\ x.op = "resolve_challenge" /\ x.status = 403
                         /\ x.key = "guess" /\ PendingRow(x.token)

\* --------------------------------------------------------------------- C40
\* C40: with no request in progress, the buyer's balance is its starting
\* balance less COST for each successful request_access, less
\* CHALLENGE_STAKE for each challenge opened, plus the stake for each
\* challenge resolved valid.
BalanceAccounts ==
    Quiescent =>
        users["b1"].balance =
            InitBalance - COST * Copies(Minted)
              - CHALLENGE_STAKE * Copies(AllOpened)
              + CHALLENGE_STAKE * Copies(ResolvedAs(TakenForValid))

====
